---- MODULE Spec2Model ----
(***************************************************************************)
(* The MyList service: the request layer (addItem, removeItem, listItems), *)
(* the list service (addToList, removeFromList, getList) and the two       *)
(* stores it works on: the MyListItem collection (MongoDB) and the version *)
(* counter and page cache (Redis).                                         *)
(*                                                                         *)
(* A request runs in a slot. Every await of the code is one step of the    *)
(* slot, so that requests interleave exactly where the code can be         *)
(* suspended. Strings are sequences of characters.                         *)
(***************************************************************************)
EXTENDS Integers, Sequences, FiniteSets, TLC

\* ------------------------------------------------------------- bounds
\* Values the clock (new Date()) takes.
MaxTime == 2
\* ObjectIds of the documents a collection holds when a specification starts
\* from a seeded one.
MaxId == 3
\* Characters of an ObjectId's hex string (24 in the driver).
HexWidth == 2
\* Traversals a paging client runs one after the other.
MaxTrav == 2
\* Values the version counter takes before the model stops bumping it.
MaxVersion == 2
\* Entries of the page cache at which SpecList stops sending Lists.
MaxPages == 2

\* ---------------------------------------------------- configuration
\* MYLIST_CACHE_TTL_SECONDS, in steps of Elapse.
PAGE_TTL_SECONDS == 2
\* MYLIST_MAX_LIMIT, set small so that the clamp acts on the lists modelled.
MAX_LIMIT == 2
\* MYLIST_DEFAULT_LIMIT, set apart from the number listItems passes.
DEFAULT_LIMIT == 1
\* The default listItems passes to toNumberOrDefault.
ControllerDefaultLimit == 20

\* ------------------------------------------------------------ strings
Digits == <<"0", "1", "2", "3", "4", "5", "6", "7", "8", "9">>

IsDigit(c) == \E i \in 1..10 : Digits[i] = c

DigitValue(c) == (CHOOSE i \in 1..10 : Digits[i] = c) - 1

\* Number -> decimal string.
RECURSIVE ToDigits(_)
ToDigits(n) == IF n < 10 THEN <<Digits[n + 1]>>
               ELSE ToDigits(n \div 10) \o <<Digits[(n % 10) + 1]>>

\* Decimal string -> number (the caller has checked the characters).
RECURSIVE FromDigits(_)
FromDigits(s) == IF s = <<>> THEN 0
                 ELSE 10 * FromDigits(SubSeq(s, 1, Len(s) - 1)) + DigitValue(s[Len(s)])

AllDigits(s) == \A i \in 1..Len(s) : IsDigit(s[i])

RECURSIVE PadLeft(_, _)
PadLeft(s, w) == IF Len(s) >= w THEN s ELSE PadLeft(<<"0">> \o s, w)

\* Date.prototype.toISOString: the timestamp, to the millisecond.
ToISOString(t) == ToDigits(t)

\* An id written without its leading zeros.
ToHexStringUnpadded(id) == ToDigits(id)

\* String(ObjectId): the fixed-width hex string.
ToHexString(id) == PadLeft(ToDigits(id), HexWidth)

\* new Date(s): NaN (-1 here) unless s is a date string.
ParseDate(s) == IF s # <<>> /\ AllDigits(s) THEN FromDigits(s) ELSE -1

\* Types.ObjectId.isValid on a string: the fixed-width hex string.
ObjectIdIsValid(s) == Len(s) = HexWidth /\ AllDigits(s)

\* Characters of the raw cursor text and the base64 characters that stand for them.
RawAlphabet == Digits \o <<"|">>

B64Alphabet == <<"A", "B", "C", "D", "E", "F", "G", "H", "I", "J", "K">>

B64Index(c) == CHOOSE i \in 1..Len(B64Alphabet) : B64Alphabet[i] = c

RawIndex(c) == CHOOSE i \in 1..Len(RawAlphabet) : RawAlphabet[i] = c

\* Buffer.from(raw).toString("base64")
ToBase64(raw) == [i \in 1..Len(raw) |-> B64Alphabet[RawIndex(raw[i])]]

\* Buffer.from(s, "base64").toString("utf8"): characters outside the base64
\* alphabet are skipped.
RECURSIVE FromBase64(_)
FromBase64(s) ==
    IF s = <<>> THEN <<>>
    ELSE IF \E i \in 1..Len(B64Alphabet) : B64Alphabet[i] = s[1]
         THEN <<RawAlphabet[B64Index(s[1])]>> \o FromBase64(Tail(s))
         ELSE FromBase64(Tail(s))

\* The part of s before its first "|" (all of s when it has none).
RECURSIVE BeforeBar(_)
BeforeBar(s) == IF s = <<>> \/ s[1] = "|" THEN <<>>
                ELSE <<s[1]>> \o BeforeBar(Tail(s))

HasBar(s) == \E i \in 1..Len(s) : s[i] = "|"

\* The part of s after its first "|".
RECURSIVE AfterBar(_)
AfterBar(s) == IF s = <<>> THEN <<>>
               ELSE IF s[1] = "|" THEN Tail(s) ELSE AfterBar(Tail(s))

\* --------------------------------------------------------- the cursor
\* An absent cursor, an absent contentType and a null nextCursor.
NoCursor == <<>>

NoFilter == ""

NoTotal == -1

\* The text getList uses for the first page in the page cache key.
StartKey == <<"start">>

\* getList's nextCursor for a record.
EncodeCursor(addedAt, id) ==
    ToBase64(ToISOString(addedAt) \o <<"|">> \o ToHexString(id))

\* decodeCursorSafe: ok is FALSE where the code throws INVALID_CURSOR.
\* raw.split("|") yields the parts; the first two are used.
DecodeCursorSafe(cursor) ==
    LET raw == FromBase64(cursor)
        addedAtStr == BeforeBar(raw)
        idStr == IF HasBar(raw) THEN BeforeBar(AfterBar(raw)) ELSE <<>>
    IN  IF addedAtStr = <<>> \/ idStr = <<>> THEN [ok |-> FALSE, addedAt |-> 0, id |-> 0]
        ELSE IF ParseDate(addedAtStr) = -1 THEN [ok |-> FALSE, addedAt |-> 0, id |-> 0]
        ELSE IF ~ObjectIdIsValid(idStr) THEN [ok |-> FALSE, addedAt |-> 0, id |-> 0]
        ELSE [ok |-> TRUE, addedAt |-> ParseDate(addedAtStr), id |-> FromDigits(idStr)]

\* ------------------------------------------------------- the catalog
\* X-User-Id values: users of the User collection, a well-formed id of no
\* user, and a string that is no ObjectId.
ExistingUsers == {"u1", "u2"}

UnknownUser == "u9"

MalformedId == "zz"

NoHeader == ""

\* Movies, TV shows and episodes of the catalog; "e1" is an episode of "s1",
\* "e2" of a show that is not "s1".
Movies == {"m1", "m2"}

Shows == {"s1"}

UnknownContent == "c9"

Episodes == {"e1", "e2"}

UnknownEpisode == "e9"

NoEpisode == ""

EpisodeShow(e) == IF e = "e1" THEN "s1" ELSE "s2"

\* Types.ObjectId.isValid on an id of a request.
IdIsValid(s) == s \in ExistingUsers \cup {UnknownUser} \cup Movies \cup Shows
                      \cup {UnknownContent} \cup Episodes \cup {UnknownEpisode}

\* The snapshot addToList builds from the catalog's document.
NoSnapshot == ""

CatalogSnapshot(c) == "catalog"

\* ------------------------------------------- the MyListItem collection
VARIABLES
    store,      \* the documents of the MyListItem collection
    clock,      \* what new Date() returns
    nextId,     \* the next ObjectId the collection hands out
    version,    \* Redis: mylist:<userId>:version, -1 when the key is absent
    versionTtl, \* Redis: the version key's expiry: "none", "far" (days
                \* away) or "near" (less than a page's time to live away)
    pages,      \* Redis: the page cache entries
    redisUp,    \* whether Redis commands succeed
    req,        \* the requests in flight, by slot
    trav,       \* a client paging through a list with the cursors it is given
    writes,     \* history: the writes the collection has taken
    settled     \* history: per user, the last write whose request has returned

vars == <<store, clock, nextId, version, versionTtl, pages, redisUp, req, trav,
          writes, settled>>

\* The users whose Redis keys and documents the model holds.
KeyUsers == ExistingUsers \cup {UnknownUser}

ContentTypeOf(c) == IF c \in Movies THEN "movie" ELSE "tvshow"

\* The document addToList inserts (lines 162-170).
NewDoc(id, userId, payload, snapshot, now) ==
    [id |-> id, userId |-> userId, contentId |-> payload.contentId,
     contentType |-> payload.contentType, episodeId |-> payload.episodeId,
     addedAt |-> now, snapshot |-> snapshot]

NoItem == [id |-> 0]

\* The index of the pair without its unique option.
DuplicateKeyNever(st, userId, contentId) == FALSE

\* MyListItemSchema.index({ userId: 1, contentId: 1 }, { unique: true }):
\* whether inserting a document for the pair raises E11000.
DuplicateKey(st, userId, contentId) ==
    \E d \in st : d.userId = userId /\ d.contentId = contentId

\* A lookup of the duplicate by a field the documents do not have.
FindOneNothing(st, userId, contentId) == NoItem

\* findOne({ userId, contentId })
FindOne(st, userId, contentId) ==
    IF \E d \in st : d.userId = userId /\ d.contentId = contentId
    THEN CHOOSE d \in st : d.userId = userId /\ d.contentId = contentId
    ELSE NoItem

\* sort({ addedAt: -1, _id: -1 }): whether a comes before b.
SortsBefore(a, b) ==
    \/ a.addedAt > b.addedAt
    \/ a.addedAt = b.addedAt /\ a.id > b.id

RECURSIVE SortDesc(_)
SortDesc(S) ==
    IF S = {} THEN <<>>
    ELSE LET first == CHOOSE a \in S : \A b \in S \ {a} : SortsBefore(a, b)
         IN  <<first>> \o SortDesc(S \ {first})

\* The cursor clause without its _id tie-breaker.
AfterCursorNoTie(d, c) == d.addedAt < c.addedAt

\* The $or clause getList adds for a cursor (lines 280-283).
AfterCursor(d, c) ==
    \/ d.addedAt < c.addedAt
    \/ d.addedAt = c.addedAt /\ d.id < c.id

\* The filter getList builds (lines 275-284); c is the decoded cursor.
QueryMatches(d, userId, contentType, hasCursor, c) ==
    /\ d.userId = userId
    /\ (contentType # NoFilter => d.contentType = contentType)
    /\ (hasCursor => AfterCursor(d, c))

Take(s, n) == SubSeq(s, 1, IF Len(s) < n THEN Len(s) ELSE n)

\* find(query).sort(...).limit(limit + 1) (lines 287-291).
FindDocs(st, userId, contentType, hasCursor, c, limit) ==
    Take(SortDesc({d \in st : QueryMatches(d, userId, contentType, hasCursor, c)}),
         limit + 1)

\* nextCursor taken from the first document left out of the page.
BuildPageNextDoc(docs, limit) ==
    IF Len(docs) > limit
    THEN [items |-> SubSeq(docs, 1, limit),
          nextCursor |-> EncodeCursor(docs[limit + 1].addedAt, docs[limit + 1].id),
          total |-> NoTotal]
    ELSE [items |-> docs, nextCursor |-> NoCursor, total |-> NoTotal]

\* nextCursor and the truncation of docs (lines 293-302).
BuildPage(docs, limit) ==
    IF Len(docs) > limit
    THEN [items |-> SubSeq(docs, 1, limit),
          nextCursor |-> EncodeCursor(docs[limit].addedAt, docs[limit].id),
          total |-> NoTotal]
    ELSE [items |-> docs, nextCursor |-> NoCursor, total |-> NoTotal]

\* countDocuments({ userId }) (lines 305-307).
CountDocuments(st, userId) == Cardinality({d \in st : d.userId = userId})

\* ------------------------------------------------------ the page cache
\* A page key that leaves the user out.
PageCacheKeyShared(userId, ver, limit, cursor) ==
    <<"", ver, limit, IF cursor # NoCursor THEN cursor ELSE StartKey>>

\* pageCacheKey
PageCacheKey(userId, ver, limit, cursor) ==
    <<userId, ver, limit, IF cursor # NoCursor THEN cursor ELSE StartKey>>

Cached(key) == \E e \in pages : e.key = key

CachedEntry(key) == CHOOSE e \in pages : e.key = key

\* The SET without its NX option: the last writer's page replaces the entry.
SetOverwrite(ps, key, payload, at) ==
    {e \in ps : e.key # key}
        \cup {[key |-> key, payload |-> payload, at |-> at, age |-> 0]}

\* redis.set(key, value, "EX", ttl, "NX"): kept only when the key holds
\* nothing. An entry carries its age, in seconds of PAGE_TTL_SECONDS, and at:
\* the writes the collection had taken when its page was computed (history).
SetNX(ps, key, payload, at) ==
    IF \E e \in ps : e.key = key THEN ps
    ELSE ps \cup {[key |-> key, payload |-> payload, at |-> at, age |-> 0]}

\* ------------------------------------------------------- the requests
\* toNumberOrDefault's Number(v), for the query strings modelled: NaN is
\* [finite |-> FALSE].
ToNumber(v) ==
    IF v = <<>> THEN [finite |-> FALSE, n |-> 0]
    ELSE IF AllDigits(v) THEN [finite |-> TRUE, n |-> FromDigits(v)]
    ELSE IF v[1] = "-" /\ Len(v) > 1 /\ AllDigits(Tail(v))
         THEN [finite |-> TRUE, n |-> 0 - FromDigits(Tail(v))]
    ELSE [finite |-> FALSE, n |-> 0]

\* toNumberOrDefault
ToNumberOrDefault(v, d) ==
    LET n == ToNumber(v) IN IF n.finite /\ n.n > 0 THEN n.n ELSE d

Min(a, b) == IF a < b THEN a ELSE b

\* getList's limit (line 249), from the number listItems passes.
ClampLimit(n) == Min(n, MAX_LIMIT)

EmptyPage == [items |-> <<>>, nextCursor |-> NoCursor, total |-> NoTotal]

\* A slot. Besides the request's arguments and locals it keeps what the
\* properties need of the request's past: hit (the page came from the cache),
\* dup (the insert raised E11000), bumped (INCR succeeded), cacheOk / cacheErr
\* (a Redis command of the request succeeded / failed), after (settled of the
\* user when the request came in), asOf (writes when the page returned was
\* computed), wrote (the write the request made), began (writes when a List
\* came in).
Idle ==
    [op |-> "idle", pc |-> "idle",
     userId |-> "", contentId |-> "", contentType |-> "", episodeId |-> "",
     snapshot |-> "", rawLimit |-> <<>>, limit |-> 0, cursor |-> NoCursor,
     includeTotal |-> "",
     ver |-> 0, page |-> EmptyPage, item |-> NoItem,
     status |-> 0, code |-> "", message |-> "",
     hit |-> FALSE, dup |-> FALSE, bumped |-> FALSE,
     cacheOk |-> FALSE, cacheErr |-> FALSE,
     after |-> 0, asOf |-> 0, wrote |-> 0, began |-> 0]

\* The user whose list the paging client reads, on slot 1.
TravUser == "u1"

\* A response is read as soon as it is there: while a slot holds one, the
\* only step is its reading (Recycle, TravCollect).
Quiet == \A r \in DOMAIN req : req[r].pc # "done"

\* A slot takes a new request when it holds none.
Free(r) == Quiet /\ req[r].pc = "idle"

\* The mutations of a user that have yet to bump the counter.
Bumping(userId) ==
    Cardinality({r \in DOMAIN req : /\ req[r].userId = userId
                                    /\ req[r].pc \in {"create", "findExisting",
                                                      "incr"}})

\* A specification starts no mutation whose bump would take the counter past
\* MaxVersion.
BumpBudget(userId) ==
    userId \in KeyUsers =>
        (IF version[userId] = -1 THEN 0 ELSE version[userId]) + Bumping(userId)
            < MaxVersion

\* errorHandler's response to an HttpError: { code, message }, and to any
\* other error: status 500 and { message }.
Fail(q, status, code, message) ==
    [q EXCEPT !.pc = "done", !.status = status, !.code = code, !.message = message]

\* ------------------------------------------------------------ List
\* requireUser, listItems and getList down to redis.get(versionKey), the
\* first await (lines 249-260). A Redis error there is not caught.
ListBeginStep(r, userId, rawLimit, cursor, contentType, includeTotal) ==
    LET q == [Idle EXCEPT !.op = "list", !.userId = userId, !.rawLimit = rawLimit,
                          !.limit = ClampLimit(ToNumberOrDefault(rawLimit,
                                                   ControllerDefaultLimit)),
                          !.cursor = cursor, !.contentType = contentType,
                          !.includeTotal = includeTotal]
    IN  /\ Free(r)
        /\ req' = [req EXCEPT ![r] =
              IF userId = NoHeader
              THEN Fail(q, 401, "", "Missing X-User-Id header")
              ELSE IF ~IdIsValid(userId)
              THEN Fail(q, 500, "", "invalid userId")
              ELSE IF ~redisUp
              THEN Fail([q EXCEPT !.cacheErr = TRUE], 500, "", "redis error")
              ELSE [q EXCEPT !.cacheOk = TRUE,
                             !.after = settled[userId],
                             !.began = writes,
                             !.ver = IF version[userId] = -1 THEN 0
                                     ELSE version[userId],
                             !.pc = IF version[userId] = -1 THEN "setnx"
                                    ELSE "cacheGet"]]
        /\ UNCHANGED <<store, clock, nextId, version, versionTtl, pages, redisUp,
                       writes, settled>>

ListBegin(r, userId, rawLimit, cursor, contentType, includeTotal) ==
    /\ ListBeginStep(r, userId, rawLimit, cursor, contentType, includeTotal)
    /\ UNCHANGED trav

\* An initialisation by SET: the counter is put to 0 whatever it holds.
ListSetnxOverwrite(r) ==
    LET q == req[r] IN
    /\ Quiet
    /\ q.op = "list" /\ q.pc = "setnx"
    /\ IF redisUp
       THEN /\ version' = [version EXCEPT ![q.userId] = 0]
            /\ req' = [req EXCEPT ![r].pc = "cacheGet", ![r].ver = 0]
       ELSE /\ req' = [req EXCEPT ![r] =
                          Fail([q EXCEPT !.cacheErr = TRUE], 500, "", "redis error")]
            /\ UNCHANGED version
    /\ UNCHANGED <<store, clock, nextId, versionTtl, pages, redisUp, trav,
                   writes, settled>>

\* redis.setnx(versionKey, "0"); version = "0" (lines 256-260). Not caught.
ListSetnx(r) ==
    LET q == req[r] IN
    /\ Quiet
    /\ q.op = "list" /\ q.pc = "setnx"
    /\ IF redisUp
       THEN /\ version' = [version EXCEPT ![q.userId] =
                              IF @ = -1 THEN 0 ELSE @]
            /\ req' = [req EXCEPT ![r].pc = "cacheGet", ![r].ver = 0]
       ELSE /\ req' = [req EXCEPT ![r] =
                          Fail([q EXCEPT !.cacheErr = TRUE], 500, "", "redis error")]
            /\ UNCHANGED version
    /\ UNCHANGED <<store, clock, nextId, versionTtl, pages, redisUp, trav,
                   writes, settled>>

\* redis.get(cacheKey) and the return of a cached page (lines 262-272).
ListCacheGet(r) ==
    LET q == req[r]
        key == PageCacheKey(q.userId, q.ver, q.limit, q.cursor)
    IN
    /\ Quiet
    /\ q.op = "list" /\ q.pc = "cacheGet"
    /\ req' = [req EXCEPT ![r] =
          IF ~redisUp THEN [q EXCEPT !.cacheErr = TRUE, !.pc = "query"]
          ELSE IF Cached(key)
          THEN [q EXCEPT !.pc = "done", !.status = 200, !.hit = TRUE,
                         !.cacheOk = TRUE,
                         !.page = CachedEntry(key).payload,
                         !.asOf = CachedEntry(key).at]
          ELSE [q EXCEPT !.cacheOk = TRUE, !.pc = "query"]]
    /\ UNCHANGED <<store, clock, nextId, version, versionTtl, pages, redisUp,
                   trav, writes, settled>>

\* The cursor's decoding, the query and the page (lines 274-302).
ListQuery(r) ==
    LET q == req[r]
        hasCursor == q.cursor # NoCursor
        c == IF hasCursor THEN DecodeCursorSafe(q.cursor)
             ELSE [ok |-> TRUE, addedAt |-> 0, id |-> 0]
        docs == FindDocs(store, q.userId, q.contentType, hasCursor, c, q.limit)
    IN
    /\ Quiet
    /\ q.op = "list" /\ q.pc = "query"
    /\ req' = [req EXCEPT ![r] =
          IF ~c.ok THEN Fail(q, 400, "INVALID_CURSOR", "Invalid cursor")
          ELSE [q EXCEPT !.page = BuildPage(docs, q.limit), !.asOf = writes,
                         !.pc = IF q.includeTotal # "" THEN "count"
                                ELSE "cacheSet"]]
    /\ UNCHANGED <<store, clock, nextId, version, versionTtl, pages, redisUp,
                   trav, writes, settled>>

\* countDocuments (lines 304-309).
ListCount(r) ==
    LET q == req[r] IN
    /\ Quiet
    /\ q.op = "list" /\ q.pc = "count"
    /\ req' = [req EXCEPT ![r].page.total = CountDocuments(store, q.userId),
                          ![r].pc = "cacheSet"]
    /\ UNCHANGED <<store, clock, nextId, version, versionTtl, pages, redisUp,
                   trav, writes, settled>>

\* The write to the page cache, caught when it fails, and the response
\* (lines 311-324).
ListCacheSet(r) ==
    LET q == req[r]
        key == PageCacheKey(q.userId, q.ver, q.limit, q.cursor)
    IN
    /\ Quiet
    /\ q.op = "list" /\ q.pc = "cacheSet"
    /\ pages' = IF redisUp THEN SetNX(pages, key, q.page, q.asOf) ELSE pages
    /\ req' = [req EXCEPT ![r].pc = "done", ![r].status = 200,
                          ![r].cacheErr = q.cacheErr \/ ~redisUp,
                          ![r].cacheOk = q.cacheOk \/ redisUp]
    /\ UNCHANGED <<store, clock, nextId, version, versionTtl, redisUp, trav,
                   writes, settled>>

\* The page getList computes when it reads nothing from the cache
\* (lines 274-309), for a request whose cursor decodes.
UncachedPage(st, q) ==
    LET hasCursor == q.cursor # NoCursor
        c == IF hasCursor THEN DecodeCursorSafe(q.cursor)
             ELSE [ok |-> TRUE, addedAt |-> 0, id |-> 0]
        page == BuildPage(FindDocs(st, q.userId, q.contentType, hasCursor, c,
                                   q.limit), q.limit)
    IN  IF q.includeTotal # ""
        THEN [page EXCEPT !.total = CountDocuments(st, q.userId)]
        ELSE page

\* ------------------------------------------------------------- Add
\* AddSchema.safeParse of the request body.
AddSchemaAccepts(body) ==
    /\ body.contentId # ""
    /\ body.contentType \in {"movie", "tvshow"}
    /\ body.snapshot # NoSnapshot

\* The checks of the ids' form alone, the lookups left out.
AddCheckNoLookup(userId, body) ==
    IF ~IdIsValid(userId) THEN [status |-> 400, code |-> "INVALID_USER_ID"]
    ELSE IF ~IdIsValid(body.contentId)
    THEN [status |-> 400, code |-> "INVALID_CONTENT_ID"]
    ELSE IF body.episodeId # NoEpisode /\ ~IdIsValid(body.episodeId)
    THEN [status |-> 400, code |-> "INVALID_EPISODE_ID"]
    ELSE [status |-> 0, code |-> ""]

\* addToList's checks before the insert (lines 81-160): the error it throws,
\* status 0 when it throws none. The users and the catalog do not change, so
\* the lookups are taken with the request's first step.
AddCheck(userId, body) ==
    IF ~IdIsValid(userId) THEN [status |-> 400, code |-> "INVALID_USER_ID"]
    ELSE IF ~IdIsValid(body.contentId)
    THEN [status |-> 400, code |-> "INVALID_CONTENT_ID"]
    ELSE IF body.episodeId # NoEpisode /\ ~IdIsValid(body.episodeId)
    THEN [status |-> 400, code |-> "INVALID_EPISODE_ID"]
    ELSE IF userId \notin ExistingUsers
    THEN [status |-> 404, code |-> "USER_NOT_FOUND"]
    ELSE IF body.contentType = "movie"
    THEN IF body.contentId \notin Movies
         THEN [status |-> 404, code |-> "CONTENT_NOT_FOUND"]
         ELSE IF body.episodeId # NoEpisode
         THEN [status |-> 400, code |-> "INVALID_PAYLOAD"]
         ELSE [status |-> 0, code |-> ""]
    ELSE IF body.contentId \notin Shows
    THEN [status |-> 404, code |-> "CONTENT_NOT_FOUND"]
    ELSE IF body.episodeId = NoEpisode THEN [status |-> 0, code |-> ""]
    ELSE IF body.episodeId \notin Episodes
    THEN [status |-> 404, code |-> "EPISODE_NOT_FOUND"]
    ELSE IF EpisodeShow(body.episodeId) # body.contentId
    THEN [status |-> 400, code |-> "EPISODE_MISMATCH"]
    ELSE [status |-> 0, code |-> ""]

\* requireUser, addItem and addToList down to the insert.
AddBegin(r, userId, body) ==
    LET q == [Idle EXCEPT !.op = "add", !.userId = userId,
                          !.contentId = body.contentId,
                          !.contentType = body.contentType,
                          !.episodeId = body.episodeId,
                          !.snapshot = IF body.snapshot = NoSnapshot
                                       THEN CatalogSnapshot(body.contentId)
                                       ELSE body.snapshot]
        chk == AddCheck(userId, body)
    IN  /\ Free(r)
        /\ req' = [req EXCEPT ![r] =
              IF userId = NoHeader
              THEN Fail(q, 401, "", "Missing X-User-Id header")
              ELSE IF ~AddSchemaAccepts(body)
              THEN Fail(q, 400, "", "issues")
              ELSE IF chk.status # 0
              THEN Fail(q, chk.status, chk.code, "message")
              ELSE [q EXCEPT !.pc = "create"]]
        /\ UNCHANGED <<store, clock, nextId, version, versionTtl, pages, redisUp,
                       trav, writes, settled>>

\* MyListItemModel.create(doc) (lines 162-172, 176-178).
AddCreate(r) ==
    LET q == req[r]
        doc == NewDoc(nextId, q.userId, q, q.snapshot, clock)
    IN
    /\ Quiet
    /\ q.op = "add" /\ q.pc = "create"
    /\ IF DuplicateKey(store, q.userId, q.contentId)
       THEN /\ req' = [req EXCEPT ![r].pc = "findExisting", ![r].dup = TRUE]
            /\ UNCHANGED <<store, nextId, writes>>
       ELSE /\ store' = store \cup {doc}
            /\ nextId' = nextId + 1
            /\ writes' = writes + 1
            /\ req' = [req EXCEPT ![r].pc = "incr", ![r].item = doc,
                                  ![r].wrote = writes + 1]
    /\ UNCHANGED <<clock, version, versionTtl, pages, redisUp, trav, settled>>

\* A catch block that returns the existing record without a bump.
AddFindExistingNoBump(r) ==
    LET q == req[r]
        existing == FindOne(store, q.userId, q.contentId)
    IN
    /\ Quiet
    /\ q.op = "add" /\ q.pc = "findExisting"
    /\ req' = [req EXCEPT ![r] =
          IF existing = NoItem
          THEN Fail(q, 500, "INTERNAL_ERROR", "duplicate key but fetch failed")
          ELSE [q EXCEPT !.item = existing, !.pc = "done", !.status = 201]]
    /\ UNCHANGED <<store, clock, nextId, version, versionTtl, pages, redisUp,
                   trav, writes, settled>>

\* The findOne after E11000 (lines 178-194).
AddFindExisting(r) ==
    LET q == req[r]
        existing == FindOne(store, q.userId, q.contentId)
    IN
    /\ Quiet
    /\ q.op = "add" /\ q.pc = "findExisting"
    /\ req' = [req EXCEPT ![r] =
          IF existing = NoItem
          THEN Fail(q, 500, "INTERNAL_ERROR", "duplicate key but fetch failed")
          ELSE [q EXCEPT !.item = existing, !.pc = "incr"]]
    /\ UNCHANGED <<store, clock, nextId, version, versionTtl, pages, redisUp,
                   trav, writes, settled>>

\* ---------------------------------------------------------- Remove
\* A removal that takes every document of the user with it.
DeleteAllOfUser(st, res) == {d \in st : d.userId # res.userId}

\* findOneAndDelete's effect on the collection when it finds res.
DeleteOne(st, res) == st \ {res}

\* A removeItem that answers "Removed" whatever removeFromList returned.
RemoveMissRemoved(q) == [q EXCEPT !.pc = "done", !.status = 200]

\* removeItem's answer when removeFromList returns null (lines 32-33).
RemoveMiss(q) == Fail(q, 404, "", "Item not found")

\* requireUser, removeItem and removeFromList's findOneAndDelete
\* (lines 200-218); new Types.ObjectId throws inside the try.
RemoveBegin(r, userId, contentId) ==
    LET q == [Idle EXCEPT !.op = "remove", !.userId = userId,
                          !.contentId = contentId]
        res == FindOne(store, userId, contentId)
    IN
    /\ Free(r)
    /\ IF userId # NoHeader /\ IdIsValid(userId) /\ IdIsValid(contentId)
          /\ res # NoItem
       THEN /\ store' = DeleteOne(store, res)
            /\ writes' = writes + 1
            /\ req' = [req EXCEPT ![r] =
                  [q EXCEPT !.item = res, !.pc = "incr", !.wrote = writes + 1]]
       ELSE /\ req' = [req EXCEPT ![r] =
                  IF userId = NoHeader
                  THEN Fail(q, 401, "", "Missing X-User-Id header")
                  ELSE IF ~IdIsValid(userId) \/ ~IdIsValid(contentId)
                  THEN Fail(q, 500, "INTERNAL_ERROR",
                            "failed to remove item from list")
                  ELSE RemoveMiss(q)]
            /\ UNCHANGED <<store, writes>>
    /\ UNCHANGED <<clock, nextId, version, versionTtl, pages, redisUp, trav,
                   settled>>

\* ------------------------------------------------- bumpUserVersion
\* What a mutation answers once bumpUserVersion has returned: 201 with the
\* item (addItem), 200 "Removed" (removeItem).
Answer(q) == [q EXCEPT !.pc = "done",
                       !.status = IF q.op = "add" THEN 201 ELSE 200]

\* The write a returned mutation leaves settled for its user.
Settle(q) == [settled EXCEPT ![q.userId] =
                             IF q.bumped /\ q.wrote > @ THEN q.wrote ELSE @]

\* A bump that creates the counter and never moves it again.
IncrOnce(v) == IF v = -1 THEN 1 ELSE v

\* Redis INCR: an absent key counts as 0.
Incr(v) == IF v = -1 THEN 1 ELSE v + 1

\* A bump whose error reaches the mutation's caller.
BumpFailedThrows(q) ==
    Fail([q EXCEPT !.cacheErr = TRUE], 500, "INTERNAL_ERROR", "redis error")

\* bumpUserVersion's catch (lines 338-340): the error is logged, and the
\* mutation answers as if the bump had been made.
BumpFailed(q) == Answer([q EXCEPT !.cacheErr = TRUE])

\* redis.incr(versionKey) (line 335); when it fails the expire is skipped.
BumpIncr(r) ==
    LET q == req[r] IN
    /\ Quiet
    /\ q.op \in {"add", "remove"} /\ q.pc = "incr"
    /\ IF redisUp
       THEN /\ version' = [version EXCEPT ![q.userId] = Incr(@)]
            /\ req' = [req EXCEPT ![r].pc = "expire", ![r].bumped = TRUE,
                                  ![r].cacheOk = TRUE]
       ELSE /\ req' = [req EXCEPT ![r] = BumpFailed(q)]
            /\ UNCHANGED version
    /\ UNCHANGED settled
    /\ UNCHANGED <<store, clock, nextId, versionTtl, pages, redisUp, trav,
                   writes>>

\* redis.expire(versionKey, 30 days) (line 337), then the response.
BumpExpire(r) ==
    LET q == req[r] IN
    /\ Quiet
    /\ q.op \in {"add", "remove"} /\ q.pc = "expire"
    /\ versionTtl' = IF redisUp /\ version[q.userId] # -1
                     THEN [versionTtl EXCEPT ![q.userId] = "far"]
                     ELSE versionTtl
    /\ req' = [req EXCEPT ![r] =
                  IF redisUp THEN Answer(q) ELSE BumpFailed(q)]
    /\ settled' = Settle(q)
    /\ UNCHANGED <<store, clock, nextId, version, pages, redisUp, trav, writes>>

\* ------------------------------------------------ the paging client
\* A client reads a user's list page by page: the first List carries no
\* cursor, every next one the nextCursor of the page before, until it is null.
\* start keeps the collection as it was when the client began (history).
TravStart(rawLimit) ==
    /\ Quiet
    /\ trav.state \in {"off", "end"}
    /\ trav.runs < MaxTrav
    /\ trav' = [state |-> "want", rawLimit |-> rawLimit, cursor |-> NoCursor,
                items |-> <<>>, runs |-> trav.runs + 1, start |-> store]
    /\ UNCHANGED <<store, clock, nextId, version, versionTtl, pages, redisUp,
                   req, writes, settled>>

TravRequest ==
    /\ trav.state = "want"
    /\ ListBeginStep(1, TravUser, trav.rawLimit, trav.cursor, NoFilter, "")
    /\ trav' = [trav EXCEPT !.state = "wait"]

TravCollect ==
    LET q == req[1] IN
    /\ trav.state = "wait"
    /\ q.pc = "done"
    /\ trav' = IF q.status # 200 THEN [trav EXCEPT !.state = "failed"]
               ELSE [trav EXCEPT !.items = @ \o q.page.items,
                                 !.cursor = q.page.nextCursor,
                                 !.state = IF q.page.nextCursor = NoCursor
                                           THEN "end" ELSE "want"]
    /\ req' = [req EXCEPT ![1] = Idle]
    /\ UNCHANGED <<store, clock, nextId, version, versionTtl, pages, redisUp,
                   writes, settled>>

\* The client reads the response; the slot is free again.
Recycle(r) ==
    /\ req[r].pc = "done"
    /\ ~(r = 1 /\ trav.state = "wait")
    /\ req' = [req EXCEPT ![r] = Idle]
    /\ UNCHANGED <<store, clock, nextId, version, versionTtl, pages, redisUp,
                   trav, writes, settled>>

\* ------------------------------------------------- the environment
\* Time passes.
Tick ==
    /\ Quiet
    /\ clock < MaxTime
    /\ clock' = clock + 1
    /\ UNCHANGED <<store, nextId, version, versionTtl, pages, redisUp, req,
                   trav, writes, settled>>

\* Redis becomes unreachable: every command is rejected.
RedisFail ==
    /\ Quiet
    /\ redisUp
    /\ redisUp' = FALSE
    /\ UNCHANGED <<store, clock, nextId, version, versionTtl, pages, req, trav,
                   writes, settled>>

RedisRecover ==
    /\ Quiet
    /\ ~redisUp
    /\ redisUp' = TRUE
    /\ UNCHANGED <<store, clock, nextId, version, versionTtl, pages, req, trav,
                   writes, settled>>

\* A page cache that keeps its entries for ever.
ExpiredNever(e) == FALSE

\* The EX option of the page's SET (lines 316-317): Redis drops the entry
\* once it has been there for PAGE_TTL_SECONDS.
Expired(e) == e.age >= PAGE_TTL_SECONDS

\* A part of the pages' time to live passes: the entries age, and Redis
\* drops those whose time is up.
Elapse ==
    LET aged == {[e EXCEPT !.age = @ + 1] : e \in pages} IN
    /\ Quiet
    /\ pages # {}
    /\ pages' = {e \in aged : ~Expired(e)}
    /\ UNCHANGED <<store, clock, nextId, version, versionTtl, redisUp, req,
                   trav, writes, settled>>

\* The requests of a user in flight.
InFlight(userId) == \E r \in DOMAIN req : req[r].userId = userId

\* Days pass in which nothing is asked: no request is in flight, every page
\* is gone when they are over, and the expiry bumpUserVersion set on a
\* counter (line 337: 30 days) has come near.
ElapseDays ==
    /\ \A r \in DOMAIN req : req[r].pc = "idle"
    /\ \E u \in KeyUsers : versionTtl[u] = "far"
    /\ versionTtl' = [u \in KeyUsers |->
                         IF versionTtl[u] = "far" THEN "near" ELSE versionTtl[u]]
    /\ pages' = {}
    /\ UNCHANGED <<store, clock, nextId, version, redisUp, req, trav, writes,
                   settled>>

\* A counter's expiry runs out: Redis drops the key.
ExpireVersion(userId) ==
    /\ Quiet
    /\ version[userId] # -1 /\ versionTtl[userId] = "near"
    /\ version' = [version EXCEPT ![userId] = -1]
    /\ versionTtl' = [versionTtl EXCEPT ![userId] = "none"]
    /\ UNCHANGED <<store, clock, nextId, pages, redisUp, req, trav, writes,
                   settled>>

\* ------------------------------------------------- specifications
Slots == {1, 2}

TravOff == [state |-> "off", rawLimit |-> <<>>, cursor |-> NoCursor,
            items |-> <<>>, runs |-> 0, start |-> {}]

Init ==
    /\ store = {}
    /\ clock = 1
    /\ nextId = 1
    /\ version = [u \in KeyUsers |-> -1]
    /\ versionTtl = [u \in KeyUsers |-> "none"]
    /\ pages = {}
    /\ redisUp = TRUE
    /\ req = [r \in Slots |-> Idle]
    /\ trav = TravOff
    /\ writes = 0
    /\ settled = [u \in KeyUsers |-> 0]

\* The body of an Add.
Body(c, t, e, snapshot) ==
    [contentId |-> c, contentType |-> t, episodeId |-> e, snapshot |-> snapshot]

\* The cursors a client holds: those of the documents of the collection.
StoreCursors == {EncodeCursor(d.addedAt, d.id) : d \in store}

\* Spec: two requests at a time for one user, within one tick of the clock.
\* Adds and Removes of a movie and of a show (with and without an episode),
\* Lists of the first page.
SpecBodies == {Body("m1", "movie", NoEpisode, "A"),
               Body("s1", "tvshow", NoEpisode, "A"),
               Body("s1", "tvshow", "e1", "A")}

Next ==
    \/ \E r \in Slots, b \in SpecBodies :
          BumpBudget("u1") /\ AddBegin(r, "u1", b)
    \/ \E r \in Slots : AddCreate(r)
    \/ \E r \in Slots : AddFindExisting(r)
    \/ \E r \in Slots, c \in {"m1", "s1"} :
          BumpBudget("u1") /\ RemoveBegin(r, "u1", c)
    \/ \E r \in Slots : BumpIncr(r)
    \/ \E r \in Slots : BumpExpire(r)
    \/ \E r \in Slots : ListBegin(r, "u1", <<"1">>, NoCursor, NoFilter, "")
    \/ \E r \in Slots : ListSetnx(r)
    \/ \E r \in Slots : ListCacheGet(r)
    \/ \E r \in Slots : ListQuery(r)
    \/ \E r \in Slots : ListCacheSet(r)
    \/ \E r \in Slots : Recycle(r)

Spec == Init /\ [][Next]_vars

\* SpecSeq: one request at a time, with the Adds and Removes a client can
\* send: missing and malformed ids, ids of nothing, bodies the schema or the
\* service refuses.
SeqUsers == {"u1", UnknownUser, MalformedId, NoHeader}

SeqBodies ==
    {Body("m1", "movie", NoEpisode, "A"), Body("m1", "movie", NoEpisode, "B"),
     Body("s1", "tvshow", NoEpisode, "A"), Body("s1", "tvshow", "e1", "B"),
     Body("s1", "tvshow", "e2", "A"), Body("s1", "tvshow", UnknownEpisode, "A"),
     Body("s1", "tvshow", MalformedId, "A"), Body("m1", "movie", "e1", "A"),
     Body("m1", "tvshow", NoEpisode, "A"), Body(UnknownContent, "movie", NoEpisode, "A"),
     Body(MalformedId, "movie", NoEpisode, "A"), Body("", "movie", NoEpisode, "A"),
     Body("m1", "bogus", NoEpisode, "A"), Body("m1", "movie", NoEpisode, NoSnapshot)}

\* The cursors of SpecSeq's Lists: none, the literal pageCacheKey uses for
\* none, and a token that holds no "|".
SeqCursors == {NoCursor, StartKey, <<"A", "B">>}

NextSeq ==
    \/ \E u \in SeqUsers, b \in SeqBodies : BumpBudget(u) /\ AddBegin(1, u, b)
    \/ AddCreate(1)
    \/ AddFindExisting(1)
    \/ \E u \in SeqUsers, c \in {"m1", "s1", MalformedId} :
          BumpBudget(u) /\ RemoveBegin(1, u, c)
    \/ BumpIncr(1)
    \/ BumpExpire(1)
    \/ \E u \in SeqUsers \ {UnknownUser}, c \in SeqCursors :
          ListBegin(1, u, <<"1">>, c, NoFilter, "")
    \/ ListSetnx(1)
    \/ ListCacheGet(1)
    \/ ListQuery(1)
    \/ ListCacheSet(1)
    \/ Recycle(1)
    \/ Tick

SpecSeq == Init /\ [][NextSeq]_vars

\* Collections a specification starts from: per content of SeedContents no
\* document or one with any id and addedAt, for TravUser, and one document of
\* another user, newer than all of them.
SeedContents == {"m1", "s1", "m2"}

SeedDoc(c, id, t) ==
    [id |-> id, userId |-> TravUser, contentId |-> c,
     contentType |-> ContentTypeOf(c), episodeId |-> NoEpisode, addedAt |-> t,
     snapshot |-> "A"]

OtherDoc ==
    [id |-> MaxId + 1, userId |-> "u2", contentId |-> "m1", contentType |-> "movie",
     episodeId |-> NoEpisode, addedAt |-> MaxTime, snapshot |-> "A"]

SeedStores ==
    LET Choice == {<<0, 0>>} \cup ((1..MaxId) \X (1..MaxTime))
        Picks == {f \in [SeedContents -> Choice] :
                     \A c1, c2 \in SeedContents :
                         (c1 # c2 /\ f[c1][1] # 0) => f[c1][1] # f[c2][1]}
    IN  {{SeedDoc(c, f[c][1], f[c][2]) : c \in {x \in SeedContents : f[x][1] # 0}}
            \cup {OtherDoc} : f \in Picks}

InitSeeded(stores) ==
    /\ store \in stores
    /\ clock = MaxTime
    /\ nextId = MaxId + 2
    /\ version = [u \in KeyUsers |-> -1]
    /\ versionTtl = [u \in KeyUsers |-> "none"]
    /\ pages = {}
    /\ redisUp = TRUE
    /\ req = [r \in Slots |-> Idle]
    /\ trav = TravOff
    /\ writes = 0
    /\ settled = [u \in KeyUsers |-> 0]

\* SpecList: one request at a time, with Lists of any page, contentType and
\* includeTotal, between Adds and Removes of a movie and a show; from the
\* empty collection and from one of three documents, two of one addedAt.
ListSeeds ==
    {{}, {SeedDoc("m1", 1, 1), SeedDoc("s1", 2, 1), SeedDoc("m2", 3, 2), OtherDoc}}

ListLimits == {<<"1">>, <<"2">>}

ListCursors == {NoCursor} \cup StoreCursors

NextList ==
    \/ \E c \in {"m1", "s1"} :
          /\ BumpBudget("u1")
          /\ AddBegin(1, "u1", Body(c, ContentTypeOf(c), NoEpisode, "A"))
    \/ AddCreate(1)
    \/ AddFindExisting(1)
    \/ \E c \in {"m1", "s1"} : BumpBudget("u1") /\ RemoveBegin(1, "u1", c)
    \/ BumpIncr(1)
    \/ BumpExpire(1)
    \/ \E l \in ListLimits, c \in ListCursors,
          f \in {NoFilter, "movie", "tvshow"}, t \in {"", "true"} :
          /\ Cardinality(pages) < MaxPages
          /\ ListBegin(1, "u1", l, c, f, t)
    \/ ListSetnx(1)
    \/ ListCacheGet(1)
    \/ ListQuery(1)
    \/ ListCount(1)
    \/ ListCacheSet(1)
    \/ Recycle(1)

SpecList == InitSeeded(ListSeeds) /\ [][NextList]_vars

\* SpecFault: one request at a time for one user, with Redis going down and
\* coming back between any two steps.  A bump that fails leaves the counter
\* where it was, so the mutations are bounded by the writes made as well.
WriteBudget == writes < MaxVersion

NextFault ==
    \/ \E c \in {"m1", "s1"} :
          /\ BumpBudget("u1") /\ WriteBudget
          /\ AddBegin(1, "u1", Body(c, ContentTypeOf(c), NoEpisode, "A"))
    \/ AddCreate(1)
    \/ AddFindExisting(1)
    \/ \E c \in {"m1", "s1"} :
          BumpBudget("u1") /\ WriteBudget /\ RemoveBegin(1, "u1", c)
    \/ BumpIncr(1)
    \/ BumpExpire(1)
    \/ \E l \in ListLimits : ListBegin(1, "u1", l, NoCursor, NoFilter, "")
    \/ ListSetnx(1)
    \/ ListCacheGet(1)
    \/ ListQuery(1)
    \/ ListCacheSet(1)
    \/ Recycle(1)
    \/ RedisFail
    \/ RedisRecover

SpecFault == Init /\ [][NextFault]_vars

\* SpecTraverse: a client pages through the list of TravUser, MaxTrav times,
\* with any limit, over any collection; nothing else runs.
TravLimits == {<<>>, <<"0">>, <<"-", "1">>, <<"x">>, <<"1">>, <<"3">>}

NextTraverse ==
    \/ \E l \in TravLimits : TravStart(l)
    \/ TravRequest
    \/ ListSetnx(1)
    \/ ListCacheGet(1)
    \/ ListQuery(1)
    \/ ListCacheSet(1)
    \/ TravCollect

SpecTraverse == InitSeeded(SeedStores) /\ [][NextTraverse]_vars

\* SpecRace: a client pages through the list of TravUser on slot 1 while
\* Adds, Removes and first-page Lists of the same user run on either slot;
\* from the empty collection and from one that holds the movie.
RaceSeeds == {{}, {SeedDoc("m1", 1, 1)}}

NextRace ==
    \/ TravStart(<<"1">>)
    \/ TravRequest
    \/ TravCollect
    \/ \E r \in Slots :
          /\ BumpBudget("u1")
          /\ AddBegin(r, "u1", Body("m1", "movie", NoEpisode, "A"))
    \/ \E r \in Slots : AddCreate(r)
    \/ \E r \in Slots : AddFindExisting(r)
    \/ \E r \in Slots : BumpBudget("u1") /\ RemoveBegin(r, "u1", "m1")
    \/ \E r \in Slots : BumpIncr(r)
    \/ \E r \in Slots : BumpExpire(r)
    \/ ListBegin(2, "u1", <<"1">>, NoCursor, NoFilter, "")
    \/ \E r \in Slots : ListSetnx(r)
    \/ \E r \in Slots : ListCacheGet(r)
    \/ \E r \in Slots : ListQuery(r)
    \/ \E r \in Slots : ListCacheSet(r)
    \/ \E r \in Slots : Recycle(r)

SpecRace == InitSeeded(RaceSeeds) /\ [][NextRace]_vars

\* SpecExpiry: two requests at a time for one user, with time passing for
\* the keys Redis holds: pages age and expire, days pass without a request,
\* and the counter's expiry runs out. Adds and Removes of the movie, Lists
\* of the first page; from a collection that holds the movie.
NextExpiry ==
    \/ \E r \in Slots :
          /\ BumpBudget("u1") /\ WriteBudget
          /\ AddBegin(r, "u1", Body("m1", "movie", NoEpisode, "A"))
    \/ \E r \in Slots : AddCreate(r)
    \/ \E r \in Slots : AddFindExisting(r)
    \/ \E r \in Slots :
          BumpBudget("u1") /\ WriteBudget /\ RemoveBegin(r, "u1", "m1")
    \/ \E r \in Slots : BumpIncr(r)
    \/ \E r \in Slots : BumpExpire(r)
    \/ \E r \in Slots : ListBegin(r, "u1", <<"1">>, NoCursor, NoFilter, "")
    \/ \E r \in Slots : ListSetnx(r)
    \/ \E r \in Slots : ListCacheGet(r)
    \/ \E r \in Slots : ListQuery(r)
    \/ \E r \in Slots : ListCacheSet(r)
    \/ \E r \in Slots : Recycle(r)
    \/ Elapse
    \/ ElapseDays
    \/ ExpireVersion("u1")

SpecExpiry == InitSeeded({{SeedDoc("m1", 1, 1)}}) /\ [][NextExpiry]_vars

\* SpecUsers: one request at a time, of either of two users: Adds and
\* Removes of the movie, Lists of the first page.
NextUsers ==
    \/ \E u \in ExistingUsers :
          /\ BumpBudget(u)
          /\ AddBegin(1, u, Body("m1", "movie", NoEpisode, "A"))
    \/ AddCreate(1)
    \/ AddFindExisting(1)
    \/ \E u \in ExistingUsers : BumpBudget(u) /\ RemoveBegin(1, u, "m1")
    \/ BumpIncr(1)
    \/ BumpExpire(1)
    \/ \E u \in ExistingUsers : ListBegin(1, u, <<"1">>, NoCursor, NoFilter, "")
    \/ ListSetnx(1)
    \/ ListCacheGet(1)
    \/ ListQuery(1)
    \/ ListCacheSet(1)
    \/ Recycle(1)

SpecUsers == Init /\ [][NextUsers]_vars

\* ------------------------------------------------------ properties
\* C1 (SpecTraverse): pagination completeness. A traversal of a user's list
\* (List without a cursor, then with each returned nextCursor until it is
\* null, nothing mutating in between) never fails, and when it ends it has
\* returned exactly the user's records, each once, in strictly descending
\* (addedAt, id) order, whatever the limit asked for.
C1_PaginationComplete ==
    /\ trav.state # "failed"
    /\ trav.state = "end" =>
          LET got == trav.items
              mine == {d \in store : d.userId = TravUser}
          IN  /\ Len(got) = Cardinality(mine)
              /\ {got[i] : i \in 1..Len(got)} = mine
              /\ \A i, j \in 1..Len(got) :
                    i < j => \/ got[i].addedAt > got[j].addedAt
                             \/ /\ got[i].addedAt = got[j].addedAt
                                /\ got[i].id > got[j].id

\* A traversal with limit 1 has ended with three records, two of them of one
\* addedAt.
C1_Witness ==
    /\ trav.state = "end"
    /\ trav.rawLimit = <<"1">>
    /\ Len(trav.items) = 3
    /\ \E i, j \in 1..Len(trav.items) :
          i # j /\ trav.items[i].addedAt = trav.items[j].addedAt

C3_CacheTransparent ==
    \A r \in Slots :
        (req[r].op = "list" /\ req[r].pc = "done" /\ req[r].status = 200)
            => req[r].page = UncachedPage(store, req[r])

C5_Uniqueness ==
    \A d1, d2 \in store :
        (d1.userId = d2.userId /\ d1.contentId = d2.contentId) => d1 = d2

\* Two Adds of one pair are in flight at once, with different episodeIds; one
\* has created the record and the other's insert has been refused.
C5_Witness ==
    \E r1, r2 \in Slots :
        /\ r1 # r2
        /\ req[r1].op = "add" /\ req[r1].pc = "incr" /\ req[r1].wrote > 0
        /\ req[r2].op = "add" /\ req[r2].pc = "findExisting" /\ req[r2].dup
        /\ req[r1].contentId = req[r2].contentId
        /\ req[r1].episodeId # req[r2].episodeId

\* C6 (SpecFault): List with the cache unreachable. A List all of whose cache
\* operations failed is answered 200 with the page computed from the store.
C6_ListWithoutCache ==
    LET q == req[1] IN
    (q.op = "list" /\ q.pc = "done" /\ q.cacheErr /\ ~q.cacheOk) =>
        /\ q.status = 200
        /\ q.page = UncachedPage(store, q)

\* C7 (SpecFault): mutations with the cache unreachable. An Add whose bump
\* failed is answered 201 with the record, which the store holds; a Remove
\* whose bump failed is answered 200 and the store no longer holds the pair.
C7_MutationWithoutCache ==
    LET q == req[1]
        held == {d \in store : d.userId = q.userId /\ d.contentId = q.contentId}
    IN  /\ (q.op = "add" /\ q.pc = "done" /\ q.cacheErr) =>
              (q.status = 201 /\ q.code = "" /\ held = {q.item})
        /\ (q.op = "remove" /\ q.pc = "done" /\ q.cacheErr) =>
              (q.status = 200 /\ q.code = "" /\ held = {})

\* An Add has created a record and been answered although its INCR failed.
C7_Witness ==
    LET q == req[1] IN
    /\ q.op = "add" /\ q.pc = "done" /\ q.cacheErr /\ ~q.bumped
    /\ q.wrote > 0 /\ q.item \in store

\* C8 (SpecList): the nextCursor rule. A List answered without a cache hit
\* returns records matching its query after its cursor's position, in
\* descending order; when more than limit of them exist it returns limit of
\* them, every record left out sorting after the last one returned, and
\* nextCursor decodes to that last one's (addedAt, id); otherwise it returns
\* all of them and nextCursor is null.
C8_NextCursorRule ==
    LET q == req[1]
        After(d) ==
            \/ q.cursor = NoCursor
            \/ \E t \in 0..MaxTime, i \in 0..(MaxId + MaxVersion + 1) :
                  /\ q.cursor = EncodeCursor(t, i)
                  /\ d.addedAt < t \/ (d.addedAt = t /\ d.id < i)
        matching == {d \in store :
                        /\ d.userId = q.userId
                        /\ q.contentType = NoFilter \/ d.contentType = q.contentType
                        /\ After(d)}
        items == q.page.items
        n == Len(items)
        Desc(a, b) == a.addedAt > b.addedAt \/ (a.addedAt = b.addedAt /\ a.id > b.id)
    IN  (q.op = "list" /\ q.pc = "done" /\ q.status = 200 /\ ~q.hit) =>
            (/\ \A i \in 1..n : items[i] \in matching
             /\ \A i, j \in 1..n : i < j => Desc(items[i], items[j])
             /\ IF Cardinality(matching) > q.limit
                THEN /\ n = q.limit
                     /\ \A d \in matching :
                           (\A i \in 1..n : items[i] # d) => Desc(items[n], d)
                     /\ DecodeCursorSafe(q.page.nextCursor) =
                           [ok |-> TRUE, addedAt |-> items[n].addedAt,
                            id |-> items[n].id]
                ELSE /\ n = Cardinality(matching)
                     /\ q.page.nextCursor = NoCursor)

\* A filtered List with a cursor, answered without a cache hit, has left a
\* matching record out and returned a nextCursor.
C8_Witness ==
    LET q == req[1] IN
    /\ q.op = "list" /\ q.pc = "done" /\ q.status = 200 /\ ~q.hit
    /\ q.cursor # NoCursor /\ q.contentType # NoFilter
    /\ Len(q.page.items) = q.limit
    /\ q.page.nextCursor # NoCursor

\* C9 (SpecTraverse): limit clamping. Every List's effective limit lies in
\* 1..MAX_LIMIT and is DEFAULT_LIMIT when the request's limit is absent,
\* zero, negative or not a number; no List returns more than MAX_LIMIT items
\* and none fails.
C9_LimitClamped ==
    LET q == req[1] IN
    (q.op = "list") =>
        /\ q.limit \in 1..MAX_LIMIT
        /\ q.rawLimit \in {<<>>, <<"0">>, <<"-", "1">>, <<"x">>}
              => q.limit = DEFAULT_LIMIT
        /\ q.pc = "done" => (q.status = 200 /\ Len(q.page.items) <= MAX_LIMIT)

\* C10 (SpecList): the contentType filter. Every item of the page answered to
\* a List carrying a contentType has that contentType, in every state of the
\* cache.
C10_FilterHonoured ==
    LET q == req[1] IN
    (q.op = "list" /\ q.pc = "done" /\ q.status = 200 /\ q.contentType # NoFilter)
        => \A i \in 1..Len(q.page.items) :
               q.page.items[i].contentType = q.contentType

\* C11 (SpecList): the total field. The page answered to a List carries a
\* total exactly when the request set includeTotal, and the total is the
\* number of records the user holds, in every state of the cache.
C11_TotalField ==
    LET q == req[1] IN
    (q.op = "list" /\ q.pc = "done" /\ q.status = 200) =>
        /\ (q.page.total # NoTotal) <=> (q.includeTotal = "true")
        /\ (q.page.total # NoTotal) =>
              (q.page.total = Cardinality({d \in store : d.userId = q.userId}))

\* C12 (SpecSeq): Remove of an absent pair. A Remove with well-formed ids of
\* a pair the store holds no record of is answered 404 in the step that looks
\* the pair up, and that step changes neither the store nor any version
\* counter.
C12_RemoveAbsent ==
    [][LET q == req'[1] IN
       (/\ req[1].pc = "idle" /\ q.op = "remove"
        /\ q.userId \in KeyUsers
        /\ q.contentId \in Movies \cup Shows \cup {UnknownContent}
        /\ ~\E d \in store : d.userId = q.userId /\ d.contentId = q.contentId)
           => (/\ q.pc = "done" /\ q.status = 404
               /\ store' = store
               /\ version' = version
               /\ versionTtl' = versionTtl)]_vars

\* A Remove of a pair the user does not hold has been answered 404 while the
\* user holds another record and the counter has been bumped before.
C12_Witness ==
    LET q == req[1] IN
    /\ q.op = "remove" /\ q.pc = "done" /\ q.status = 404
    /\ \E d \in store : d.userId = q.userId /\ d.contentId # q.contentId
    /\ version[q.userId] >= 1

\* C13 (SpecList): Remove of an existing pair. With Redis reachable, a Remove
\* of a pair the store holds deletes the record of the pair and nothing else,
\* then raises the user's counter by exactly 1 (from 0 when the key is
\* absent) and no other counter, then answers 200.
C13_RemoveExisting ==
    [][LET q == req[1]
           n == req'[1]
           held == {d \in store : d.userId = n.userId /\ d.contentId = n.contentId}
       IN  /\ (q.pc = "idle" /\ n.op = "remove" /\ held # {}) =>
                 (/\ Cardinality(held) = 1
                  /\ store' = store \ held
                  /\ n.pc = "incr")
           /\ (q.op = "remove" /\ q.pc = "incr" /\ n.pc # "incr") =>
                 (/\ n.pc = "expire"
                  /\ version'[q.userId] =
                        (IF version[q.userId] = -1 THEN 0 ELSE version[q.userId]) + 1
                  /\ \A u \in KeyUsers \ {q.userId} : version'[u] = version[u]
                  /\ store' = store)
           /\ (q.op = "remove" /\ q.pc = "expire" /\ n.pc # "expire") =>
                 (/\ n.pc = "done" /\ n.status = 200
                  /\ version' = version
                  /\ store' = store)]_vars

\* A Remove has been answered 200 after its bump, with other records of the
\* user and a record of another user left in the store.
C13_Witness ==
    LET q == req[1] IN
    /\ q.op = "remove" /\ q.pc = "done" /\ q.status = 200 /\ q.bumped
    /\ q.item \notin store
    /\ \E d \in store : d.userId = q.userId
    /\ \E d \in store : d.userId # q.userId

\* C14 (SpecSeq): a failed Add leaves the state unchanged. An Add with a
\* malformed id, a body the schema refuses, an absent user, content or
\* episode, or a movie carrying an episodeId is answered 400 or 404 in one
\* step, and the step that answers an Add 400 or 404 changes neither the
\* store nor any version counter.
C14_FailedAddNoEffect ==
    [][LET q == req'[1]
           bad == \/ q.userId \notin ExistingUsers
                  \/ q.contentType \notin {"movie", "tvshow"}
                  \/ q.contentType = "movie" /\ q.contentId \notin Movies
                  \/ q.contentType = "tvshow" /\ q.contentId \notin Shows
                  \/ q.contentType = "movie" /\ q.episodeId # NoEpisode
                  \/ q.episodeId \notin Episodes \cup {NoEpisode}
       IN  /\ (req[1].pc = "idle" /\ q.op = "add" /\ q.userId # NoHeader /\ bad)
                 => (q.pc = "done" /\ q.status \in {400, 404})
           /\ (req[1].pc # "done" /\ q.op = "add" /\ q.pc = "done"
                  /\ q.status \in {400, 404})
                 => (store' = store /\ version' = version /\ nextId' = nextId)]_vars

\* An Add of a movie carrying an episodeId has been refused while the user
\* holds a record.
C14_Witness ==
    LET q == req[1] IN
    /\ q.op = "add" /\ q.pc = "done" /\ q.status = 400
    /\ q.code = "INVALID_PAYLOAD"
    /\ \E d \in store : d.userId = q.userId

\* C15 (SpecSeq): snapshot synthesis. An Add without a snapshot, by an
\* existing user for existing content, is answered 201 and stores a record
\* whose snapshot is the one built from the catalog.
C15_SnapshotSynthesis ==
    LET q == req[1] IN
    (/\ q.op = "add" /\ q.pc = "done"
     /\ q.snapshot = CatalogSnapshot(q.contentId)
     /\ q.userId \in ExistingUsers
     /\ q.contentId \in Movies \cup Shows
     /\ q.contentType = ContentTypeOf(q.contentId)
     /\ q.episodeId = NoEpisode)
        => (/\ q.status = 201
            /\ q.item \in store
            /\ q.item.snapshot = CatalogSnapshot(q.contentId))

\* C16 (SpecSeq): the episode checks of Add. An Add for a show with an
\* episodeId is answered 404 when no such episode exists and 409 when the
\* episode belongs to another show, and writes nothing in both cases.
C16_EpisodeChecks ==
    LET q == req[1] IN
    (/\ q.op = "add" /\ q.pc = "done"
     /\ q.userId \in ExistingUsers
     /\ q.contentType = "tvshow" /\ q.contentId \in Shows
     /\ q.snapshot \notin {NoSnapshot, CatalogSnapshot(q.contentId)})
        => (/\ q.episodeId = UnknownEpisode => (q.status = 404 /\ q.wrote = 0)
            /\ (q.episodeId \in Episodes /\ EpisodeShow(q.episodeId) # q.contentId)
                  => (q.status = 409 /\ q.wrote = 0))

\* C17 (SpecTraverse): the cursor round trip. Decoding the cursor encoded
\* from the addedAt and id of any record gives them back (the collections
\* range over every id and addedAt), and a List answered to the
\* cursor of a record returns only records strictly after it in
\* (addedAt, id) descending order.
C17_CursorRoundTrip ==
    /\ \A d \in store :
          DecodeCursorSafe(EncodeCursor(d.addedAt, d.id)) =
              [ok |-> TRUE, addedAt |-> d.addedAt, id |-> d.id]
    /\ LET q == req[1] IN
       (q.op = "list" /\ q.pc = "done" /\ q.cursor # NoCursor) =>
           (/\ q.status = 200
            /\ \E d \in store :
                  /\ q.cursor = EncodeCursor(d.addedAt, d.id)
                  /\ \A k \in 1..Len(q.page.items) :
                        LET e == q.page.items[k] IN
                        \/ e.addedAt < d.addedAt
                        \/ e.addedAt = d.addedAt /\ e.id < d.id)

\* A List with the cursor of a record has been answered from the store with a
\* record of the same addedAt as the cursor's.
C17_Witness ==
    LET q == req[1] IN
    /\ q.op = "list" /\ q.pc = "done" /\ q.status = 200 /\ ~q.hit
    /\ q.cursor # NoCursor
    /\ Len(q.page.items) >= 1
    /\ q.page.items[1].addedAt = DecodeCursorSafe(q.cursor).addedAt

\* C18 (SpecSeq): the invalid cursor. A List by a user with a well-formed id
\* whose cursor does not decode is answered 400 INVALID_CURSOR, in every
\* state of the cache.
C18_InvalidCursor ==
    LET q == req[1] IN
    (/\ q.op = "list" /\ q.pc = "done"
     /\ q.userId \in KeyUsers
     /\ q.cursor # NoCursor /\ ~DecodeCursorSafe(q.cursor).ok)
        => (q.status = 400 /\ q.code = "INVALID_CURSOR")

\* C19 (SpecSeq): malformed identifiers. An Add, Remove or List that carries
\* the user header and a malformed userId or contentId is answered 400 and
\* writes nothing.
C19_MalformedIds ==
    LET q == req[1] IN
    (/\ q.pc = "done"
     /\ q.userId # NoHeader
     /\ q.userId = MalformedId \/ q.contentId = MalformedId)
        => (q.status = 400 /\ q.wrote = 0 /\ ~q.bumped)

\* C20 (SpecSeq): the error shape. Every answer of status 400 and above
\* carries a code and a message.
C20_ErrorShape ==
    LET q == req[1] IN
    (q.pc = "done" /\ q.status >= 400) => (q.code # "" /\ q.message # "")

\* C21 (SpecRace): pagination under concurrent modification. When a traversal
\* of a user's list has ended, every record of the user that was in the
\* collection from the traversal's start to its end has been returned exactly
\* once, and no record has been returned twice, whatever Adds, Removes and
\* Lists of the user ran in between.
C21_ConcurrentTraversal ==
    trav.state = "end" =>
        LET got == trav.items
            stable == {d \in trav.start \cap store : d.userId = TravUser}
        IN  /\ \A d \in stable :
                  Cardinality({i \in 1..Len(got) : got[i] = d}) = 1
            /\ \A i, j \in 1..Len(got) : i # j => got[i] # got[j]

\* The version getList resolves from the counter: "0" when the key is absent
\* (lines 255-260).
Resolved(v) == IF v = -1 THEN 0 ELSE v

\* C22 (SpecExpiry): version monotonicity. In no step, of a List, an Add, a
\* Remove or the expiry of a key, does the version that a List resolves for
\* a user (absence counted as 0) decrease.
C22_VersionMonotonic ==
    [][\A u \in KeyUsers : Resolved(version'[u]) >= Resolved(version[u])]_vars

\* C23 (Spec): getOrInit under concurrency. When a List that found the
\* counter absent has run its set-if-absent step, the version it goes on to
\* build its page key with is the value the counter holds then: never 0
\* while the counter holds a larger value.
C23_GetOrInit ==
    [][\A r \in Slots :
          (req[r].op = "list" /\ req[r].pc = "setnx" /\ req'[r].pc = "cacheGet")
              => req'[r].ver = version'[req[r].userId]]_vars

\* C24 (SpecRace): uniqueness conflict under concurrency. An Add whose insert
\* raised the duplicate-key error is answered 201 with an existing record of
\* the pair, never with an error, whatever Adds and Removes of the same pair
\* run beside it.
C24_ConflictRecovered ==
    \A r \in Slots :
        (req[r].op = "add" /\ req[r].pc = "done" /\ req[r].dup)
            => (/\ req[r].status = 201
                /\ req[r].item # NoItem
                /\ req[r].item.userId = req[r].userId
                /\ req[r].item.contentId = req[r].contentId)

\* C25 (SpecExpiry): the page cache is write-once. A key holds one value at
\* a time; as long as a key holds a value it is the value first written
\* there, so a List that computed another payload for the key does not
\* replace it; and no step of a request removes an entry: an entry goes only
\* by expiry.
C25_WriteOnce ==
    [][/\ \A e1, e2 \in pages' : e1.key = e2.key => e1 = e2
       /\ \A e \in pages :
             /\ \A e2 \in pages' :
                   e2.key = e.key => (/\ e2.payload = e.payload
                                      /\ e2.at = e.at
                                      /\ e2.age >= e.age)
             /\ req' # req => e \in pages']_vars

\* A List that read nothing from the cache has computed its page and run its
\* SET, and the key holds another payload: that of the List that wrote first.
C25_Witness ==
    \E r \in Slots :
        LET q == req[r]
            key == PageCacheKey(q.userId, q.ver, q.limit, q.cursor)
        IN  /\ q.op = "list" /\ q.pc = "done" /\ q.status = 200 /\ ~q.hit
            /\ Cached(key)
            /\ CachedEntry(key).payload # q.page

\* C26 (SpecExpiry): the stale-read window is bounded by the page's TTL.
\* A List that runs between a mutation's write to the collection and its
\* bump can return a page cached before the write (the witness); but every
\* page a List returns from the cache, stale ones included, is an entry that
\* has been there for less than PAGE_TTL_SECONDS.
C26_StaleWithinTtl ==
    [][\A r \in Slots :
          (req'[r].op = "list" /\ req'[r].hit /\ ~req[r].hit)
              => \E e \in pages :
                    /\ e.key = PageCacheKey(req[r].userId, req[r].ver,
                                            req[r].limit, req[r].cursor)
                    /\ e.payload = req'[r].page
                    /\ e.at = req'[r].asOf
                    /\ e.age < PAGE_TTL_SECONDS]_vars

\* A List that came in after a mutation of the user had written the
\* collection has returned, before that mutation's bump, a page computed
\* before the write.
C26_Witness ==
    \E r, m \in Slots :
        /\ req[m].op \in {"add", "remove"} /\ req[m].pc = "incr"
        /\ req[m].wrote > 0
        /\ req[r].op = "list" /\ req[r].pc = "done" /\ req[r].status = 200
        /\ req[r].userId = req[m].userId
        /\ req[r].hit
        /\ req[r].began >= req[m].wrote
        /\ req[r].asOf < req[m].wrote

\* C27 (SpecFault): Add bumps the version. An Add answered 201 without any
\* of its Redis commands failing has made its bump, whether it created the
\* record or found an existing one; the bump raises the user's counter by
\* exactly 1 (an absent counter counting as 0), after the insert was
\* attempted (the record was created or the insert raised the duplicate-key
\* error), and the Add raises the counter no second time.
C27_AddBumps ==
    [][LET q == req[1]
           q2 == req'[1]
       IN  /\ (q.op = "add" /\ q.pc # "done" /\ q2.pc = "done"
                   /\ q2.status = 201 /\ ~q2.cacheErr) => q2.bumped
           /\ (q.op = "add" /\ ~q.bumped /\ q2.bumped) =>
                 (/\ version'[q.userId] = Resolved(version[q.userId]) + 1
                  /\ q.item # NoItem
                  /\ q.dup \/ (q.wrote > 0 /\ q.item \in store))
           /\ (q.op = "add" /\ q.bumped /\ q2.op = "add") =>
                 version' = version]_vars

\* An Add whose insert raised the duplicate-key error has been answered 201
\* with the existing record, Redis reachable throughout, its bump made.
C27_Witness ==
    LET q == req[1] IN
    /\ q.op = "add" /\ q.pc = "done" /\ q.status = 201
    /\ q.dup /\ q.item \in store
    /\ ~q.cacheErr /\ q.bumped
    /\ version[q.userId] = MaxVersion

\* C28 (SpecExpiry): counter reclamation. Every version counter that
\* exists while no request of its user is in flight carries an expiry,
\* whether a List's initialisation or a bump created it, so that Redis
\* removes it when nothing more is asked for the user.
C28_CounterHasExpiry ==
    \A u \in KeyUsers :
        (version[u] # -1 /\ ~InFlight(u)) => versionTtl[u] # "none"

\* C29 (SpecExpiry): pages of the current version are fresh. While no
\* mutation of the user is between its write to the collection and its bump
\* (every bump succeeds here), each entry cached under the user's current
\* version (absence counted as 0) by an unfiltered List without total holds
\* the page the query for its limit and cursor returns now.
C29_CurrentPagesFresh ==
    \A u \in ExistingUsers :
        (\A r \in Slots : ~(/\ req[r].userId = u /\ req[r].pc = "incr"
                              /\ req[r].wrote > 0))
            => \A e \in pages :
                  (/\ e.key[1] = u
                   /\ e.key[2] = Resolved(version[u])
                   /\ e.payload.total = NoTotal)
                      => e.payload =
                            UncachedPage(store,
                                [Idle EXCEPT !.userId = u, !.limit = e.key[3],
                                             !.cursor = IF e.key[4] = StartKey
                                                        THEN NoCursor
                                                        ELSE e.key[4]])

\* C30 (SpecUsers): per-user isolation. A step of an Add, Remove or List of
\* one user leaves the records, the counter (and its expiry) and the cached
\* pages of every other user as they were; and a List answered with a page,
\* from the cache or from the collection, returns records of its user only.
C30_UserIsolation ==
    [][LET q == req[1]
           q2 == req'[1]
           U == IF q.op = "idle" THEN q2.userId ELSE q.userId
       IN  /\ \A v \in KeyUsers \ {U} :
                 /\ {d \in store' : d.userId = v} = {d \in store : d.userId = v}
                 /\ version'[v] = version[v]
                 /\ versionTtl'[v] = versionTtl[v]
                 /\ {e \in pages' : e.key[1] = v} = {e \in pages : e.key[1] = v}
           /\ (q2.op = "list" /\ q2.pc = "done" /\ q2.status = 200) =>
                 \A i \in 1..Len(q2.page.items) :
                     q2.page.items[i].userId = q2.userId]_vars

\* A List of u2 has returned u2's record while the collection holds a record
\* of u1 too and the cache holds a page of u1 for the same version, limit
\* and cursor.
C30_Witness ==
    LET q == req[1] IN
    /\ q.op = "list" /\ q.pc = "done" /\ q.status = 200 /\ q.userId = "u2"
    /\ Len(q.page.items) = 1
    /\ \E d \in store : d.userId = "u1"
    /\ \E e \in pages :
          /\ e.key = PageCacheKey("u1", q.ver, q.limit, q.cursor)
          /\ Len(e.payload.items) = 1

\* C31 (Spec): List is read-only. A step of a List changes no record of the
\* collection and never raises the version counter: the counter changes only
\* from absent to 0, for the List's user, at the set-if-absent step; the
\* counter's expiry is left alone; and the page cache changes only at the
\* List's last step, by one entry at most, written under the key built from
\* the version the List resolved and holding the page it returns.
C31_ListReadOnly ==
    [][\A r \in Slots :
          (req'[r] # req[r] /\ (req[r].op = "list" \/ req'[r].op = "list")) =>
              LET q == req[r]
                  u == IF q.op = "list" THEN q.userId ELSE req'[r].userId
                  key == PageCacheKey(q.userId, q.ver, q.limit, q.cursor)
              IN  /\ store' = store
                  /\ nextId' = nextId
                  /\ versionTtl' = versionTtl
                  /\ \A v \in KeyUsers :
                        version'[v] # version[v] =>
                            (/\ v = u /\ q.pc = "setnx"
                             /\ version[v] = -1 /\ version'[v] = 0)
                  /\ pages' # pages =>
                        (/\ q.pc = "cacheSet" /\ req'[r].pc = "done"
                         /\ ~Cached(key)
                         /\ pages' = pages \cup
                               {[key |-> key, payload |-> req'[r].page,
                                 at |-> q.asOf, age |-> 0]})]_vars

\* A List that found the counter absent has initialised it to 0, computed
\* its page from a collection that holds a record and written the page under
\* its key of version 0, while another request of the user is in flight.
C31_Witness ==
    \E r, m \in Slots :
        LET q == req[r]
            key == PageCacheKey(q.userId, q.ver, q.limit, q.cursor)
        IN  /\ r # m /\ req[m].pc \notin {"idle", "done"}
            /\ q.op = "list" /\ q.pc = "done" /\ q.status = 200 /\ ~q.hit
            /\ version[q.userId] = 0 /\ q.ver = 0
            /\ Len(q.page.items) = 1
            /\ q.page.items[1] \in store
            /\ Cached(key) /\ CachedEntry(key).payload = q.page

====
